---------------------------- MODULE Spec2Model ----------------------------
(***************************************************************************)
(* MultiClipboard (src/main.py): a command-line tool that keeps named      *)
(* clipboard snippets in the JSON file clipboard.json.                     *)
(*                                                                         *)
(* Text is a sequence of characters.  A Python value is a record           *)
(*   [type |-> "dict" | "str" | "list" | "int", items |-> <<...>>]         *)
(* where a dict's items are its [key, value] entries in insertion order,   *)
(* a str's items are its characters, a list's items are its elements and   *)
(* an int's items are its digits.  The data file is a sequence of          *)
(* characters, or missing.                                                 *)
(***************************************************************************)
EXTENDS Naturals, Sequences, FiniteSets

VARIABLES
    file,       \* clipboard.json: [exists, content]
    clipboard,  \* the OS clipboard's text
    pc,         \* per invocation slot: "idle", a command waiting in its handler, "done", "crashed"
    command,    \* args.command of the slot's invocation
    data,       \* main's local `data`
    key,        \* the handler's `key` (the answer to "Enter a key: ")
    overwrite,  \* process_save_command's `overwrite` answer
    out,        \* what the invocation printed, one record per print call
    runs,       \* number of invocations started
    ref,        \* reference map: key -> text, updated by the rule of the store's lifecycle
    stale,      \* per slot: another invocation wrote the file since this one loaded it
    overlapped, \* an invocation has started while another was still in its handler
    loaded      \* round-trip harness: what load_data returned

vars == <<file, clipboard, pc, command, data, key, overwrite, out, runs, ref, stale,
          overlapped, loaded>>

-----------------------------------------------------------------------------
(* Bounds *)

MaxRuns == 4        \* invocations of the program, one after the other
MaxConcRuns == 2    \* invocations of the program when they may overlap
MaxTextLen == 1     \* length of the keys and values the round-trip harness draws
MaxRawLen == 2      \* length of the arbitrary file contents tried

-----------------------------------------------------------------------------
(* Characters *)

QUOTE == "\""
BACKSLASH == "\\"
NEWLINE == "\n"
SPACE == " "

Whitespace == {SPACE, NEWLINE}

\* The characters text is made of in this model: a letter, the two characters
\* JSON escapes with a backslash, and a line break.
TextChars == {"n", QUOTE, BACKSLASH, NEWLINE}

-----------------------------------------------------------------------------
(* Python values *)

PyStr(s) == [type |-> "str", items |-> s]
PyDict(entries) == [type |-> "dict", items |-> entries]
PyList(elems) == [type |-> "list", items |-> elems]
PyInt(digits) == [type |-> "int", items |-> digits]
EmptyDict == PyDict(<<>>)

IsStr(v) == v.type = "str"
IsDict(v) == v.type = "dict"

\* Position of key k in a dict's entries, 0 when absent.
IndexOf(entries, k) ==
    IF \E i \in 1..Len(entries) : entries[i].key = k
    THEN CHOOSE i \in 1..Len(entries) : entries[i].key = k
    ELSE 0

\* d[k] = v on a dict: an existing key keeps its position, a new key is appended.
DictSet(entries, k, v) ==
    LET i == IndexOf(entries, k)
    IN  IF i = 0 THEN Append(entries, [key |-> k, value |-> v])
        ELSE [entries EXCEPT ![i] = [key |-> k, value |-> v]]

\* del d[k] on a dict that holds k.
DictDel(entries, k) ==
    LET i == IndexOf(entries, k)
    IN  SubSeq(entries, 1, i - 1) \o SubSeq(entries, i + 1, Len(entries))

DictKeys(entries) == {entries[i].key : i \in 1..Len(entries)}

DictGet(entries, k) == entries[IndexOf(entries, k)].value

\* A mapping from string to string: a dict whose values are all str.
IsStrDict(v) ==
    /\ IsDict(v)
    /\ \A i \in 1..Len(v.items) : IsStr(v.items[i].value)

\* The mapping a str-to-str dict denotes, insertion order forgotten.
ToMap(v) == [k \in DictKeys(v.items) |-> DictGet(v.items, k).items]

-----------------------------------------------------------------------------
(* json.dump *)

\* Mutant: the backslash is written as it is.
EscapeChar_RawBackslash(c) ==
    IF c = QUOTE THEN <<BACKSLASH, QUOTE>>
    ELSE IF c = NEWLINE THEN <<BACKSLASH, "n">>
    ELSE <<c>>

\* json's string escaping (ensure_ascii): quote, backslash and control
\* characters are written as backslash escapes.
EscapeChar(c) ==
    IF c = QUOTE THEN <<BACKSLASH, QUOTE>>
    ELSE IF c = BACKSLASH THEN <<BACKSLASH, BACKSLASH>>
    ELSE IF c = NEWLINE THEN <<BACKSLASH, "n">>
    ELSE <<c>>

RECURSIVE EscapeText(_)
EscapeText(s) ==
    IF s = <<>> THEN <<>> ELSE EscapeChar(Head(s)) \o EscapeText(Tail(s))

EncodeString(s) == <<QUOTE>> \o EscapeText(s) \o <<QUOTE>>

RECURSIVE Dumps(_)
RECURSIVE DumpEntries(_)
RECURSIVE DumpElements(_)

\* Entries separated by ", ", key and value by ": " (json.dump's defaults).
DumpEntries(entries) ==
    IF entries = <<>> THEN <<>>
    ELSE EncodeString(Head(entries).key) \o <<":", SPACE>> \o Dumps(Head(entries).value)
         \o (IF Len(entries) > 1 THEN <<",", SPACE>> ELSE <<>>)
         \o DumpEntries(Tail(entries))

DumpElements(elems) ==
    IF elems = <<>> THEN <<>>
    ELSE Dumps(Head(elems))
         \o (IF Len(elems) > 1 THEN <<",", SPACE>> ELSE <<>>)
         \o DumpElements(Tail(elems))

Dumps(v) ==
    CASE v.type = "str" -> EncodeString(v.items)
      [] v.type = "int" -> v.items
      [] v.type = "list" -> <<"[">> \o DumpElements(v.items) \o <<"]">>
      [] v.type = "dict" -> <<"{">> \o DumpEntries(v.items) \o <<"}">>

-----------------------------------------------------------------------------
(* json.load *)

Fail == [ok |-> FALSE, val |-> EmptyDict, next |-> 0]
Ok(v, i) == [ok |-> TRUE, val |-> v, next |-> i]

RECURSIVE SkipWs(_, _)
SkipWs(s, i) ==
    IF i <= Len(s) /\ s[i] \in Whitespace THEN SkipWs(s, i + 1) ELSE i

\* The body of a string from position i, just after its opening quote. A raw
\* control character inside a string is an error, as is an unknown escape.
RECURSIVE ParseStringBody(_, _, _)
ParseStringBody(s, i, acc) ==
    IF i > Len(s) THEN Fail
    ELSE IF s[i] = QUOTE THEN Ok(PyStr(acc), i + 1)
    ELSE IF s[i] = BACKSLASH THEN
        IF i + 1 > Len(s) THEN Fail
        ELSE IF s[i + 1] \in {QUOTE, BACKSLASH}
             THEN ParseStringBody(s, i + 2, Append(acc, s[i + 1]))
        ELSE IF s[i + 1] = "n"
             THEN ParseStringBody(s, i + 2, Append(acc, NEWLINE))
        ELSE Fail
    ELSE IF s[i] = NEWLINE THEN Fail
    ELSE ParseStringBody(s, i + 1, Append(acc, s[i]))

RECURSIVE ParseDigits(_, _, _)
ParseDigits(s, i, acc) ==
    IF i <= Len(s) /\ s[i] = "1" THEN ParseDigits(s, i + 1, Append(acc, s[i]))
    ELSE Ok(PyInt(acc), i)

RECURSIVE ParseValue(_, _)
RECURSIVE ParseMembers(_, _, _)
RECURSIVE ParseElements(_, _, _)

\* The members of an object from position i, where a key must start; acc holds
\* the entries read so far. A repeated key keeps its last value.
ParseMembers(s, i, acc) ==
    IF i > Len(s) \/ s[i] # QUOTE THEN Fail
    ELSE LET k == ParseStringBody(s, i + 1, <<>>)
         IN  IF ~k.ok THEN Fail
             ELSE LET c == SkipWs(s, k.next)
                  IN  IF c > Len(s) \/ s[c] # ":" THEN Fail
                      ELSE LET v == ParseValue(s, SkipWs(s, c + 1))
                           IN  IF ~v.ok THEN Fail
                               ELSE LET e == SkipWs(s, v.next)
                                        acc2 == DictSet(acc, k.val.items, v.val)
                                    IN  IF e > Len(s) THEN Fail
                                        ELSE IF s[e] = "}" THEN Ok(PyDict(acc2), e + 1)
                                        ELSE IF s[e] = ","
                                             THEN ParseMembers(s, SkipWs(s, e + 1), acc2)
                                        ELSE Fail

ParseElements(s, i, acc) ==
    LET v == ParseValue(s, i)
    IN  IF ~v.ok THEN Fail
        ELSE LET e == SkipWs(s, v.next)
                 acc2 == Append(acc, v.val)
             IN  IF e > Len(s) THEN Fail
                 ELSE IF s[e] = "]" THEN Ok(PyList(acc2), e + 1)
                 ELSE IF s[e] = "," THEN ParseElements(s, SkipWs(s, e + 1), acc2)
                 ELSE Fail

ParseValue(s, i) ==
    IF i > Len(s) THEN Fail
    ELSE IF s[i] = QUOTE THEN ParseStringBody(s, i + 1, <<>>)
    ELSE IF s[i] = "1" THEN ParseDigits(s, i, <<>>)
    ELSE IF s[i] = "{" THEN
        LET j == SkipWs(s, i + 1)
        IN  IF j <= Len(s) /\ s[j] = "}" THEN Ok(EmptyDict, j + 1)
            ELSE ParseMembers(s, j, <<>>)
    ELSE IF s[i] = "[" THEN
        LET j == SkipWs(s, i + 1)
        IN  IF j <= Len(s) /\ s[j] = "]" THEN Ok(PyList(<<>>), j + 1)
            ELSE ParseElements(s, j, <<>>)
    ELSE Fail

\* json.load of a whole document: one value, then nothing but whitespace.
\* ok = FALSE stands for json.JSONDecodeError.
Loads(s) ==
    LET v == ParseValue(s, SkipWs(s, 1))
    IN  IF ~v.ok THEN Fail
        ELSE IF SkipWs(s, v.next) <= Len(s) THEN Fail
        ELSE v

-----------------------------------------------------------------------------
(* Persistence *)

MissingFile == [exists |-> FALSE, content |-> <<>>]
FileWith(s) == [exists |-> TRUE, content |-> s]

Line(t, k, v) == [text |-> t, key |-> k, value |-> v]
Msg(t) == Line(t, <<>>, PyStr(<<>>))

InvalidFormatMsg == Msg("Error: Invalid data format in the file.")
EmptyKeyMsg == Msg("Error: Key cannot be empty.")
CanceledMsg == Msg("Save operation canceled.")
SavedMsg == Msg("Data saved successfully.")
CopiedMsg == Msg("Data has been copied to clipboard.")
NoKeyMsg == Msg("Key does not exist.")
DeletedMsg == Msg("Entry deleted successfully.")

\* save_data(SAVED_DATA, d): the file as open(filepath, "w") and json.dump leave it.
save_data(d) == FileWith(Dumps(d))

\* load_data(SAVED_DATA): the value returned and what was printed.
load_data(f) ==
    IF ~f.exists THEN [val |-> EmptyDict, printed |-> <<>>]
    ELSE LET r == Loads(f.content)
         IN  IF r.ok THEN [val |-> r.val, printed |-> <<>>]
             ELSE [val |-> EmptyDict, printed |-> <<InvalidFormatMsg>>]

-----------------------------------------------------------------------------
(* Python operations the handlers apply to `data` *)

IsSubstring(k, s) ==
    \E i \in 0..Len(s) : i + Len(k) <= Len(s) /\ SubSeq(s, i + 1, i + Len(k)) = k

\* `key in data`: "yes", "no", or "error" (TypeError on an int).
PyContains(d, k) ==
    CASE d.type = "dict" -> IF k \in DictKeys(d.items) THEN "yes" ELSE "no"
      [] d.type = "list" ->
            IF \E i \in 1..Len(d.items) : IsStr(d.items[i]) /\ d.items[i].items = k
            THEN "yes" ELSE "no"
      [] d.type = "str" -> IF IsSubstring(k, d.items) THEN "yes" ELSE "no"
      [] d.type = "int" -> "error"

\* str.lower() on the characters an answer is made of.
LowerChar(c) == IF c = "Y" THEN "y" ELSE IF c = "E" THEN "e" ELSE IF c = "S" THEN "s" ELSE c
Lower(s) == [i \in 1..Len(s) |-> LowerChar(s[i])]

\* Mutant: the empty key is let through.
KeyRejected_Never(k) == FALSE

\* `if not key`
KeyRejected(k) == k = <<>>

\* Mutant: only the answer "n" cancels.
Declined_OnlyN(ans) == Lower(ans) = <<"n">>

\* `if overwrite.lower() != "y"`
Declined(ans) == Lower(ans) # <<"y">>

\* clipboard.copy(v): the clipboard module writes str(v) for a str or a number
\* and raises for anything else.
CanCopy(v) == v.type \in {"str", "int"}

\* Physical lines one print call writes: one, plus one per line break in the
\* formatted key and value (a value that is not a str is formatted on one line).
RECURSIVE CountNewlines(_)
CountNewlines(s) ==
    IF s = <<>> THEN 0
    ELSE (IF Head(s) = NEWLINE THEN 1 ELSE 0) + CountNewlines(Tail(s))

PrintedLines(line) ==
    1 + CountNewlines(line.key)
      + (IF IsStr(line.value) THEN CountNewlines(line.value.items) ELSE 0)

RECURSIVE TotalLines(_)
TotalLines(lines) ==
    IF lines = <<>> THEN 0 ELSE PrintedLines(Head(lines)) + TotalLines(Tail(lines))

-----------------------------------------------------------------------------
(* Command handlers as functions of their inputs.  Each yields               *)
(*   data: `data` afterwards;  written: whether save_data ran;               *)
(*   clip: the clipboard afterwards;  printed: the print calls;              *)
(*   asked: whether the overwrite question was put;                          *)
(*   status: "done", or "crashed" on an uncaught exception.                  *)

Outcome(d, w, c, pr, a, st) ==
    [data |-> d, written |-> w, clip |-> c, printed |-> pr, asked |-> a, status |-> st]

\* Mutant: the last item is not printed.
ListLines_DropLast(d) ==
    [i \in 1..(Len(d.items) - 1) |->
        Line("Key: {key}\tValue: {value}", d.items[i].key, d.items[i].value)]

\* process_list_command: one print call per item of data.items().
ListLines(d) ==
    [i \in 1..Len(d.items) |-> Line("Key: {key}\tValue: {value}", d.items[i].key, d.items[i].value)]

ListOutcome(d, clip) ==
    IF ~IsDict(d) THEN Outcome(d, FALSE, clip, <<>>, FALSE, "crashed")
    ELSE Outcome(d, FALSE, clip, ListLines(d), FALSE, "done")

\* Mutant: the mapping is updated in memory and save_data is not called.
SaveOutcome_NoWrite(d, k, ans, clip) ==
    IF KeyRejected(k) THEN Outcome(d, FALSE, clip, <<EmptyKeyMsg>>, FALSE, "done")
    ELSE LET has == PyContains(d, k)
         IN  IF has = "error" THEN Outcome(d, FALSE, clip, <<>>, FALSE, "crashed")
             ELSE IF has = "yes" /\ Declined(ans)
                  THEN Outcome(d, FALSE, clip, <<CanceledMsg>>, TRUE, "done")
             ELSE IF ~IsDict(d)
                  THEN Outcome(d, FALSE, clip, <<>>, has = "yes", "crashed")
             ELSE Outcome(PyDict(DictSet(d.items, k, PyStr(clip))), FALSE, clip,
                          <<SavedMsg>>, has = "yes", "done")

SaveOutcome(d, k, ans, clip) ==
    IF KeyRejected(k) THEN Outcome(d, FALSE, clip, <<EmptyKeyMsg>>, FALSE, "done")
    ELSE LET has == PyContains(d, k)
         IN  IF has = "error" THEN Outcome(d, FALSE, clip, <<>>, FALSE, "crashed")
             ELSE IF has = "yes" /\ Declined(ans)
                  THEN Outcome(d, FALSE, clip, <<CanceledMsg>>, TRUE, "done")
             ELSE IF ~IsDict(d)
                  THEN Outcome(d, FALSE, clip, <<>>, has = "yes", "crashed")
             ELSE Outcome(PyDict(DictSet(d.items, k, PyStr(clip))), TRUE, clip,
                          <<SavedMsg>>, has = "yes", "done")

\* Mutant: the key is copied to the clipboard instead of its value.
LoadOutcome_CopiesKey(d, k, clip) ==
    IF KeyRejected(k) THEN Outcome(d, FALSE, clip, <<EmptyKeyMsg>>, FALSE, "done")
    ELSE LET has == PyContains(d, k)
         IN  IF has = "error" THEN Outcome(d, FALSE, clip, <<>>, FALSE, "crashed")
             ELSE IF has = "no" THEN Outcome(d, FALSE, clip, <<NoKeyMsg>>, FALSE, "done")
             ELSE IF ~IsDict(d) \/ ~CanCopy(DictGet(d.items, k))
                  THEN Outcome(d, FALSE, clip, <<>>, FALSE, "crashed")
             ELSE Outcome(d, FALSE, k, <<CopiedMsg>>, FALSE, "done")

LoadOutcome(d, k, clip) ==
    IF KeyRejected(k) THEN Outcome(d, FALSE, clip, <<EmptyKeyMsg>>, FALSE, "done")
    ELSE LET has == PyContains(d, k)
         IN  IF has = "error" THEN Outcome(d, FALSE, clip, <<>>, FALSE, "crashed")
             ELSE IF has = "no" THEN Outcome(d, FALSE, clip, <<NoKeyMsg>>, FALSE, "done")
             ELSE IF ~IsDict(d) \/ ~CanCopy(DictGet(d.items, k))
                  THEN Outcome(d, FALSE, clip, <<>>, FALSE, "crashed")
             ELSE Outcome(d, FALSE, DictGet(d.items, k).items, <<CopiedMsg>>, FALSE, "done")

\* Mutant: no membership test, so `del data[key]` raises KeyError on an absent key.
DeleteOutcome_NoTest(d, k, clip) ==
    IF KeyRejected(k) THEN Outcome(d, FALSE, clip, <<EmptyKeyMsg>>, FALSE, "done")
    ELSE LET has == PyContains(d, k)
         IN  IF has # "yes" \/ ~IsDict(d) THEN Outcome(d, FALSE, clip, <<>>, FALSE, "crashed")
             ELSE Outcome(PyDict(DictDel(d.items, k)), TRUE, clip, <<DeletedMsg>>, FALSE, "done")

DeleteOutcome(d, k, clip) ==
    IF KeyRejected(k) THEN Outcome(d, FALSE, clip, <<EmptyKeyMsg>>, FALSE, "done")
    ELSE LET has == PyContains(d, k)
         IN  IF has = "error" THEN Outcome(d, FALSE, clip, <<>>, FALSE, "crashed")
             ELSE IF has = "no" THEN Outcome(d, FALSE, clip, <<NoKeyMsg>>, FALSE, "done")
             ELSE IF ~IsDict(d) THEN Outcome(d, FALSE, clip, <<>>, FALSE, "crashed")
             ELSE Outcome(PyDict(DictDel(d.items, k)), TRUE, clip, <<DeletedMsg>>, FALSE, "done")

-----------------------------------------------------------------------------
(* Inputs *)

Procs == {1, 2}
Commands == {"save", "load", "list", "delete"}

\* Answers to "Enter a key: " (input() returns one line, so no line break).
Keys == {<<>>, <<"n">>, <<BACKSLASH, QUOTE>>}

\* Clipboard texts.
Texts == {<<>>, <<"n">>, <<QUOTE, NEWLINE, BACKSLASH>>}

\* Answers to the overwrite question.
Answers == {<<"y">>, <<"Y">>, <<"n">>, <<>>, <<"y", "e", "s">>}

\* Data files the program did not write itself but that hold a flat
\* string-to-string object with non-empty keys: compact, and spread over lines.
ValidFiles ==
    { FileWith(<<"{", QUOTE, "n", QUOTE, ":", QUOTE, BACKSLASH, QUOTE, QUOTE, "}">>),
      FileWith(<<NEWLINE, "{", SPACE, QUOTE, BACKSLASH, BACKSLASH, QUOTE, SPACE, ":",
                 NEWLINE, QUOTE, QUOTE, SPACE, ",", QUOTE, "n", QUOTE, ":", QUOTE, "n",
                 QUOTE, "}", NEWLINE>>) }

InitialFiles == {MissingFile} \cup ValidFiles

-----------------------------------------------------------------------------
(* The reference map *)

EmptyMap == [k \in {} |-> <<>>]

MapSet(m, k, t) == [x \in DOMAIN m \cup {k} |-> IF x = k THEN t ELSE m[x]]
MapDel(m, k) == [x \in DOMAIN m \ {k} |-> m[x]]

Confirms(ans) == ans \in {<<"y">>, <<"Y">>}

\* The lifecycle rule: save with a non-empty key that is absent, or present and
\* confirmed, sets that key to the clipboard text; delete with a present key
\* removes it; anything else changes nothing.
RefStep(m, c, k, ans, clip) ==
    IF c = "save" /\ k # <<>> /\ (k \notin DOMAIN m \/ Confirms(ans)) THEN MapSet(m, k, clip)
    ELSE IF c = "delete" /\ k # <<>> /\ k \in DOMAIN m THEN MapDel(m, k)
    ELSE m

\* The map a data file denotes: empty when missing or not a string-to-string object.
FileMap(f) ==
    LET v == load_data(f).val
    IN  IF IsStrDict(v) THEN ToMap(v) ELSE EmptyMap

-----------------------------------------------------------------------------
(* State machine *)

NotLoaded == [done |-> FALSE, val |-> EmptyDict, printed |-> <<>>]

InitWith(f) ==
    /\ file = f
    /\ clipboard \in Texts
    /\ pc = [p \in Procs |-> "idle"]
    /\ command = [p \in Procs |-> "none"]
    /\ data = [p \in Procs |-> EmptyDict]
    /\ key = [p \in Procs |-> <<>>]
    /\ overwrite = [p \in Procs |-> <<>>]
    /\ out = [p \in Procs |-> <<>>]
    /\ runs = 0
    /\ ref = FileMap(f)
    /\ stale = [p \in Procs |-> FALSE]
    /\ overlapped = FALSE
    /\ loaded = NotLoaded

Init == \E f \in InitialFiles : InitWith(f)

Running(p) == pc[p] = "loaded"

\* The user (or another program) puts a text on the clipboard.
UserCopies(t) ==
    /\ clipboard # t
    /\ clipboard' = t
    /\ UNCHANGED <<file, pc, command, data, key, overwrite, out, runs, ref, stale,
                   overlapped, loaded>>

\* main up to the handler's first prompt: parse the command, load the store.
Start(p, c, cap) ==
    /\ pc[p] \in {"idle", "done", "crashed"}
    /\ runs < cap
    /\ runs' = runs + 1
    /\ LET r == load_data(file)
       IN  /\ data' = [data EXCEPT ![p] = r.val]
           /\ out' = [out EXCEPT ![p] = r.printed]
    /\ command' = [command EXCEPT ![p] = c]
    /\ key' = [key EXCEPT ![p] = <<>>]
    /\ overwrite' = [overwrite EXCEPT ![p] = <<>>]
    /\ pc' = [pc EXCEPT ![p] = "loaded"]
    /\ stale' = [stale EXCEPT ![p] = FALSE]
    /\ overlapped' = (overlapped \/ \E q \in Procs \ {p} : Running(q))
    /\ UNCHANGED <<file, clipboard, ref, loaded>>

\* One invocation at a time: the next starts when no other is in its handler.
StartAlone(p, c) ==
    /\ \A q \in Procs : ~Running(q)
    /\ Start(p, c, MaxRuns)

\* Mutant: a handler that mutates reads the file again and applies its
\* mutation to what the file holds now.
Finish_Reload(p, k, ans, o) ==
    LET fresh == load_data(file).val
        merged == IF ~o.written THEN o.data
                  ELSE IF command[p] = "save"
                       THEN PyDict(DictSet(fresh.items, k, PyStr(clipboard)))
                  ELSE IF k \in DictKeys(fresh.items) THEN PyDict(DictDel(fresh.items, k))
                  ELSE fresh
    IN  /\ pc' = [pc EXCEPT ![p] = o.status]
        /\ key' = [key EXCEPT ![p] = k]
        /\ overwrite' = [overwrite EXCEPT ![p] = IF o.asked THEN ans ELSE <<>>]
        /\ data' = [data EXCEPT ![p] = merged]
        /\ file' = IF o.written THEN save_data(merged) ELSE file
        /\ clipboard' = o.clip
        /\ out' = [out EXCEPT ![p] = out[p] \o o.printed]
        /\ stale' = [q \in Procs |-> IF q # p /\ Running(q) /\ o.written THEN TRUE ELSE stale[q]]
        /\ ref' = RefStep(ref, command[p], k, ans, clipboard)
        /\ UNCHANGED <<command, runs, overlapped, loaded>>

\* The rest of main: the handler runs to its end with the answers k and ans.
Finish(p, k, ans, o) ==
    /\ pc' = [pc EXCEPT ![p] = o.status]
    /\ key' = [key EXCEPT ![p] = k]
    /\ overwrite' = [overwrite EXCEPT ![p] = IF o.asked THEN ans ELSE <<>>]
    /\ data' = [data EXCEPT ![p] = o.data]
    /\ file' = IF o.written THEN save_data(o.data) ELSE file
    /\ clipboard' = o.clip
    /\ out' = [out EXCEPT ![p] = out[p] \o o.printed]
    /\ stale' = [q \in Procs |-> IF q # p /\ Running(q) /\ o.written THEN TRUE ELSE stale[q]]
    /\ ref' = RefStep(ref, command[p], k, ans, clipboard)
    /\ UNCHANGED <<command, runs, overlapped, loaded>>

process_save_command(p, k, ans) ==
    /\ Running(p) /\ command[p] = "save"
    /\ Finish(p, k, ans, SaveOutcome(data[p], k, ans, clipboard))

process_load_command(p, k) ==
    /\ Running(p) /\ command[p] = "load"
    /\ Finish(p, k, <<>>, LoadOutcome(data[p], k, clipboard))

process_list_command(p) ==
    /\ Running(p) /\ command[p] = "list"
    /\ Finish(p, <<>>, <<>>, ListOutcome(data[p], clipboard))

process_delete_command(p, k) ==
    /\ Running(p) /\ command[p] = "delete"
    /\ Finish(p, k, <<>>, DeleteOutcome(data[p], k, clipboard))

Handler(p) ==
    \/ \E k \in Keys, ans \in Answers : process_save_command(p, k, ans)
    \/ \E k \in Keys : process_load_command(p, k)
    \/ process_list_command(p)
    \/ \E k \in Keys : process_delete_command(p, k)

\* Invocations one after the other (in slot 1).
Next ==
    \/ \E t \in Texts : UserCopies(t)
    \/ \E c \in Commands : StartAlone(1, c)
    \/ \E p \in Procs : Handler(p)

Spec == Init /\ [][Next]_vars

\* Invocations that may overlap: a second one may start while the first waits
\* at a prompt.
NextConc ==
    \/ \E t \in Texts : UserCopies(t)
    \/ \E p \in Procs, c \in Commands : Start(p, c, MaxConcRuns)
    \/ \E p \in Procs : Handler(p)

SpecConc == Init /\ [][NextConc]_vars

-----------------------------------------------------------------------------
(* Arbitrary data files *)

FileChars == {"{", "}", "[", "]", QUOTE, BACKSLASH, ":", ",", SPACE, NEWLINE, "n", "1"}

RawFiles == {FileWith(s) : s \in UNION {[1..n -> FileChars] : n \in 0..MaxRawLen}}

\* Longer contents: objects with a number as a value, an empty key, a repeated
\* key, a nested value; a list of strings; a string; a truncated object.
OtherFiles ==
    { FileWith(<<"{", QUOTE, "n", QUOTE, ":", SPACE, "1", "}">>),
      FileWith(<<"{", QUOTE, QUOTE, ":", SPACE, QUOTE, "n", QUOTE, "}">>),
      FileWith(<<"{", QUOTE, "n", QUOTE, ":", QUOTE, QUOTE, ",", QUOTE, "n", QUOTE, ":",
                 QUOTE, "n", QUOTE, "}">>),
      FileWith(<<"{", QUOTE, "n", QUOTE, ":", "[", "{", "}", "]", "}">>),
      FileWith(<<"[", QUOTE, "n", QUOTE, ",", SPACE, QUOTE, QUOTE, "]">>),
      FileWith(<<QUOTE, "n", BACKSLASH, QUOTE, "n", QUOTE>>),
      FileWith(<<"{", QUOTE, "n", QUOTE, ":", SPACE, QUOTE, "n", QUOTE, ",">>) }

AnyFiles == InitialFiles \cup RawFiles \cup OtherFiles

InitAnyFile == \E f \in AnyFiles : InitWith(f)

SpecAnyFile == InitAnyFile /\ [][Next]_vars

-----------------------------------------------------------------------------
(* Round-trip harness: a mapping is written with save_data once or more in a   *)
(* row and read back with load_data.  `runs` counts the save_data calls.      *)

RTTexts == UNION {[1..n -> TextChars] : n \in 0..MaxTextLen}
RTEntries == {[key |-> k, value |-> PyStr(t)] : k \in RTTexts, t \in RTTexts}
RTSizes == {0, 1, 2}
RTSaves == {1, 2}
RTDicts ==
    {PyDict(es) : es \in {x \in UNION {[1..n -> RTEntries] : n \in RTSizes} :
                            \A i, j \in 1..Len(x) : i # j => x[i].key # x[j].key}}

InitRoundTrip ==
    /\ file = MissingFile
    /\ clipboard = <<>>
    /\ pc = [p \in Procs |-> "harness"]
    /\ command = [p \in Procs |-> "none"]
    /\ \E d \in RTDicts : data = [p \in Procs |-> IF p = 1 THEN d ELSE EmptyDict]
    /\ key = [p \in Procs |-> <<>>]
    /\ overwrite = [p \in Procs |-> <<>>]
    /\ out = [p \in Procs |-> <<>>]
    /\ runs = 0
    /\ ref = EmptyMap
    /\ stale = [p \in Procs |-> FALSE]
    /\ overlapped = FALSE
    /\ loaded = NotLoaded

RoundTripSave ==
    /\ pc[1] = "harness"
    /\ runs + 1 \in RTSaves
    /\ runs' = runs + 1
    /\ file' = save_data(data[1])
    /\ UNCHANGED <<clipboard, pc, command, data, key, overwrite, out, ref, stale,
                   overlapped, loaded>>

RoundTripLoad ==
    /\ pc[1] = "harness"
    /\ runs >= 1
    /\ LET r == load_data(file)
       IN  loaded' = [done |-> TRUE, val |-> r.val, printed |-> r.printed]
    /\ UNCHANGED <<file, clipboard, pc, command, data, key, overwrite, out, runs, ref,
                   stale, overlapped>>

NextRoundTrip == RoundTripSave \/ RoundTripLoad

SpecRoundTrip == InitRoundTrip /\ [][NextRoundTrip]_vars

-----------------------------------------------------------------------------
(* Properties *)

\* The handler of slot p, running command c, ends in this step.
Ends(p, c) == pc[p] = "loaded" /\ command[p] = c /\ pc'[p] # "loaded"

\* What the handler of slot p prints in this step.
Printed(p) == SubSeq(out'[p], Len(out[p]) + 1, Len(out'[p]))

HasLineBreak(t) == \E i \in 1..Len(t) : t[i] = NEWLINE

\* C1: for every mapping from string to string, save_data once or twice in a row
\* and then load_data gives back a mapping with the same keys and the same value
\* for every key, without reporting an error.
RoundTrip ==
    loaded.done =>
        /\ loaded.printed = <<>>
        /\ IsStrDict(loaded.val)
        /\ ToMap(loaded.val) = ToMap(data[1])

\* A two-entry mapping with a backslash in a key and a quote in a value has been
\* saved twice and read back.
RoundTripWitness ==
    /\ loaded.done
    /\ runs = 2
    /\ Len(data[1].items) = 2
    /\ \E i \in 1..2 : data[1].items[i].key = <<BACKSLASH>>
    /\ \E i \in 1..2 : data[1].items[i].value = PyStr(<<QUOTE>>)

\* C2: save with an empty key leaves the in-memory mapping and the file as they
\* were, reads nothing, and reports "Error: Key cannot be empty.".
SaveEmptyKeyUnchanged ==
    [][\A p \in Procs :
        (Ends(p, "save") /\ key'[p] = <<>>) =>
            /\ data'[p] = data[p]
            /\ file' = file
            /\ overwrite'[p] = <<>>
            /\ Printed(p) = <<EmptyKeyMsg>>
            /\ pc'[p] = "done"]_vars

\* A save with an empty key has ended on a store that holds an entry.
SaveEmptyKeyWitness ==
    /\ pc[1] = "done" /\ command[1] = "save" /\ key[1] = <<>>
    /\ out[1] = <<EmptyKeyMsg>>
    /\ data[1].items # <<>>
    /\ clipboard # <<>>

\* C3: save on a key the store holds, answered with anything but a confirmation,
\* leaves every entry and the file unchanged, whatever the clipboard holds.
SaveDeclinedUnchanged ==
    [][\A p \in Procs :
        (/\ Ends(p, "save")
         /\ key'[p] \in DictKeys(data[p].items)
         /\ ~Confirms(overwrite'[p])) =>
            /\ data'[p] = data[p]
            /\ file' = file
            /\ Printed(p) = <<CanceledMsg>>]_vars

\* A save on an existing key was answered "yes" (not "y") while the clipboard
\* held a text other than the stored one.
SaveDeclinedWitness ==
    /\ pc[1] = "done" /\ command[1] = "save"
    /\ key[1] \in DictKeys(data[1].items)
    /\ overwrite[1] = <<"y", "e", "s">>
    /\ out[1] = <<CanceledMsg>>
    /\ PyStr(clipboard) # DictGet(data[1].items, key[1])

\* C4: delete with a non-empty key the store does not hold leaves the in-memory
\* mapping and the file unchanged and reports "Key does not exist.".
DeleteAbsentUnchanged ==
    [][\A p \in Procs :
        (/\ Ends(p, "delete")
         /\ key'[p] # <<>>
         /\ key'[p] \notin DictKeys(data[p].items)) =>
            /\ data'[p] = data[p]
            /\ file' = file
            /\ Printed(p) = <<NoKeyMsg>>
            /\ pc'[p] = "done"]_vars

\* A delete of an absent key has ended on a store that holds another entry.
DeleteAbsentWitness ==
    /\ pc[1] = "done" /\ command[1] = "delete"
    /\ key[1] # <<>>
    /\ key[1] \notin DictKeys(data[1].items)
    /\ data[1].items # <<>>
    /\ out[1] = <<NoKeyMsg>>
    /\ file.exists

RECURSIVE LineBreaksIn(_)
\* Line breaks in the keys and values of a string-to-string map.
LineBreaksIn(m) ==
    IF DOMAIN m = {} THEN 0
    ELSE LET k == CHOOSE x \in DOMAIN m : TRUE
         IN  CountNewlines(k) + CountNewlines(m[k]) + LineBreaksIn(MapDel(m, k))

\* C5 as stated: list writes as many output lines as the store has keys, and
\* leaves the store unchanged.
ListOneLinePerKey ==
    [][\A p \in Procs :
        Ends(p, "list") =>
            /\ TotalLines(Printed(p)) = Cardinality(DictKeys(data[p].items))
            /\ data'[p] = data[p]
            /\ file' = file]_vars

\* C5 amended: list makes one print call per stored key, showing that key and
\* its value; the output has as many lines as the store has keys plus one for
\* every line break in the stored keys and values (so one line per key when
\* none holds a line break); the store is unchanged.
ListOnePrintPerKey ==
    [][\A p \in Procs :
        Ends(p, "list") =>
            LET m == ToMap(data[p])
                pr == Printed(p)
            IN  /\ Len(pr) = Cardinality(DOMAIN m)
                /\ \A k \in DOMAIN m :
                     \E i \in 1..Len(pr) : pr[i].key = k /\ pr[i].value = PyStr(m[k])
                /\ TotalLines(pr) = Cardinality(DOMAIN m) + LineBreaksIn(m)
                /\ data'[p] = data[p]
                /\ file' = file
                /\ pc'[p] = "done"]_vars

\* list has ended on a store of two keys, one of whose values holds a line break.
ListWitness ==
    /\ pc[1] = "done" /\ command[1] = "list"
    /\ Len(data[1].items) = 2
    /\ Len(out[1]) = 2
    /\ \E i \in 1..2 : HasLineBreak(data[1].items[i].value.items)

\* Keys of the object a data file holds.
FileKeys(f) == LET v == load_data(f).val IN IF IsDict(v) THEN DictKeys(v.items) ELSE {}

LoadDataYieldsMapping ==
    \A p \in Procs :
        Running(p) =>
            /\ ~file.exists => (data[p] = EmptyDict /\ out[p] = <<>>)
            /\ (file.exists /\ ~Loads(file.content).ok) =>
                   (data[p] = EmptyDict /\ out[p] = <<InvalidFormatMsg>>)
            /\ IsStrDict(data[p])

\* C8: load never changes the store; with a key the store holds the clipboard
\* ends up holding exactly the stored value; with an empty or absent key the
\* clipboard is unchanged and a message is reported.
LoadFrame ==
    [][\A p \in Procs :
        Ends(p, "load") =>
            /\ data'[p] = data[p]
            /\ file' = file
            /\ pc'[p] = "done"
            /\ IF key'[p] \in DOMAIN ToMap(data[p])
               THEN clipboard' = ToMap(data[p])[key'[p]] /\ Printed(p) = <<CopiedMsg>>
               ELSE /\ clipboard' = clipboard
                    /\ Printed(p) = <<IF key'[p] = <<>> THEN EmptyKeyMsg ELSE NoKeyMsg>>]_vars

\* load has copied a stored value that holds a quote, a line break and a backslash.
LoadWitness ==
    /\ pc[1] = "done" /\ command[1] = "load"
    /\ key[1] \in DictKeys(data[1].items)
    /\ out[1] = <<CopiedMsg>>
    /\ clipboard = <<QUOTE, NEWLINE, BACKSLASH>>
    /\ Len(data[1].items) = 2

\* C9: with one invocation after the other, from a missing or valid data file,
\* the file always denotes the reference map (a missing file the empty map), and
\* does so as a valid string-to-string object once a mutation has been written.
FileFollowsReference ==
    /\ FileMap(file) = ref
    /\ file.exists => (Loads(file.content).ok /\ IsStrDict(Loads(file.content).val))
    /\ \A p \in Procs : pc[p] = "done" => ToMap(data[p]) = ref

\* After four invocations an overwrite was confirmed with "Y" and the store
\* holds two keys.
FileFollowsReferenceWitness ==
    /\ runs = 4
    /\ pc[1] = "done" /\ command[1] = "save"
    /\ overwrite[1] = <<"Y">>
    /\ Cardinality(DOMAIN ref) = 2
    /\ ref[key[1]] = clipboard

Mutated(p) == out[p] # <<>> /\ out[p][Len(out[p])] \in {SavedMsg, DeletedMsg}

EntryOf(m, k) == IF k \in DOMAIN m THEN <<m[k]>> ELSE <<>>

\* C10: when an invocation writes the file after another one wrote it since the
\* first loaded it, on a different key, the file holds exactly the later writer's
\* in-memory mapping and the other's key is as the later writer loaded it: the
\* other mutation is lost.  As long as no invocations have overlapped, the file
\* denotes the reference map.
LaterWriterWins ==
    /\ [](~overlapped => FileMap(file) = ref)
    /\ [][\A q \in Procs : \A p \in Procs \ {q} :
            (/\ pc[q] = "loaded" /\ pc'[q] = "done"
             /\ Printed(q) \in {<<SavedMsg>>, <<DeletedMsg>>}
             /\ stale[q]
             /\ pc[p] = "done" /\ Mutated(p)
             /\ key[p] # key'[q]) =>
                /\ file' = save_data(data'[q])
                /\ EntryOf(FileMap(file'), key[p]) = EntryOf(ToMap(data[q]), key[p])]_vars

\* Both invocations reported "Data saved successfully." for different keys, and
\* the file lacks the key of one of them.
LostUpdateWitness ==
    \E p \in Procs : \E q \in Procs \ {p} :
        /\ pc[p] = "done" /\ pc[q] = "done"
        /\ command[p] = "save" /\ command[q] = "save"
        /\ out[p] = <<SavedMsg>> /\ out[q] = <<SavedMsg>>
        /\ key[p] # key[q]
        /\ key[p] \notin FileKeys(file)
        /\ key[q] \in FileKeys(file)

=============================================================================
